---- MODULE Spec2Model ----
(***************************************************************************)
(* The multi-page OCR pipeline of pdf-vision-ocr/pdf_vision_ocr.py: one    *)
(* run of main() over a PDF of numPages pages.  The remote model's answer  *)
(* for each page is the environment's choice.                              *)
(***************************************************************************)
EXTENDS Integers, Sequences, FiniteSets, TLC

\* The largest number of pages a document rasterizes to.
MaxPages == 3

\* The longest prompt enumerated character by character.
MaxPromptLen == 3

\* How many times the sink is run on one finalized aggregate.
MaxSinkRuns == 2

----------------------------------------------------------------------------
\* Strings that the code inspects character by character (the prompt) are
\* sequences of one-character strings.

UpperToLower ==
  [c \in {"A","B","C","E","L","S","T","V"} |->
     CASE c = "A" -> "a" [] c = "B" -> "b" [] c = "C" -> "c" [] c = "E" -> "e"
       [] c = "L" -> "l" [] c = "S" -> "s" [] c = "T" -> "t" [] c = "V" -> "v"]

\* str.lower()
Lower(s) ==
  [i \in 1..Len(s) |-> IF s[i] \in DOMAIN UpperToLower THEN UpperToLower[s[i]] ELSE s[i]]

\* the Python operator  sub in s  on strings
Contains(s, sub) ==
  \E i \in 1..(Len(s) - Len(sub) + 1) : SubSeq(s, i, i + Len(sub) - 1) = sub

\* argparse leaves --mode as None when the flag is absent
None == "None"

ModeArgs == {None, "table", "text"}

\* The prompts tried: no keyword, "Table" capitalised, "as CSV", a near miss.
Prompts ==
  { <<"o","c","r">>,
    <<"T","a","b","l","e">>,
    <<"a","s"," ","C","S","V">>,
    <<"t","a","b","l">> }

\* The characters the enumerated prompts are made of.
PromptChars == {"c", "s", "v", "C", "x"}

\* Every prompt over PromptChars up to MaxPromptLen, and the prompts above.
AllPrompts == Prompts \cup UNION {[1..k -> PromptChars] : k \in 0..MaxPromptLen}

infer_mode_no_lower(p, mode_arg) ==
  IF mode_arg # None
  THEN mode_arg
  ELSE IF Contains(p, <<"t","a","b","l","e">>) \/ Contains(p, <<"c","s","v">>)
       THEN "table"
       ELSE "text"

infer_mode_heuristic_first(p, mode_arg) ==
  IF Contains(Lower(p), <<"t","a","b","l","e">>) \/ Contains(Lower(p), <<"c","s","v">>)
  THEN "table"
  ELSE IF mode_arg # None THEN mode_arg ELSE "text"

infer_mode(p, mode_arg) ==
  IF mode_arg # None
  THEN mode_arg
  ELSE IF Contains(Lower(p), <<"t","a","b","l","e">>) \/ Contains(Lower(p), <<"c","s","v">>)
       THEN "table"
       ELSE "text"

----------------------------------------------------------------------------
\* JSON values.  A response text in table mode is represented by what
\* json.loads makes of it: a decode error (malformed text, or the empty
\* string), a scalar, an object or an array.

Obj(m)    == [t |-> "object", members |-> m]
Arr(s)    == [t |-> "array", items |-> s]
Scalar    == [t |-> "scalar"]
Malformed == [t |-> "malformed"]
EmptyText == [t |-> "empty"]

\* Column names in code-point order, the order sorted() puts them in.
KeyOrder == <<"A", "B", "C">>

\* The response texts a page can come back with in table mode.
Payloads ==
  { Obj([columns |-> <<"A","B">>, rows |-> Arr(<< <<"1","2">> >>)]),
    Obj([columns |-> <<"B","A">>, rows |-> Arr(<< <<"3","4">> >>)]),
    Obj([columns |-> <<"A">>, rows |-> Arr(<< <<"5">>, <<"6">> >>)]),
    Obj([rows |-> Arr(<< <<"7","8">> >>)]),
    Obj([columns |-> <<"A","C">>]),
    Obj([columns |-> <<"A","B">>, rows |-> Scalar]),
    Obj([x \in {} |-> Scalar]),
    Arr(<< Obj([B |-> "2", A |-> "1"]) >>),
    Arr(<< Obj([A |-> "1"]), Obj([C |-> "3"]) >>),
    Arr(<< >>),
    Arr(<< Obj([A |-> "1"]), Scalar >>),
    Scalar,
    Malformed,
    EmptyText }

\* The response texts a page can come back with in text mode.
Bodies == {"", "md"}

\* What the remote call does: raise, answer without message content, or
\* answer with a text.
Responses(m) ==
  {[kind |-> "raise"], [kind |-> "none"]}
    \cup {[kind |-> "content", content |-> c] : c \in IF m = "table" THEN Payloads ELSE Bodies}

----------------------------------------------------------------------------
\* Paths (pathlib.Path): absolute or not, the directory components, and the
\* final component split into stem and suffix.
MkPath(abs, dir, stem, suffix) ==
  [abs |-> abs, dir |-> dir, stem |-> stem, suffix |-> suffix]

\* args.output when --output is absent (None)
NoOutput == MkPath(FALSE, <<>>, "", "")

\* output_path before it is assigned
NoPath == MkPath(FALSE, <<>>, "", "")

\* --pdf: a.pdf, docs/a.pdf, /data/a.pdf
PdfPaths ==
  { MkPath(FALSE, <<>>, "a", ".pdf"),
    MkPath(FALSE, <<"docs">>, "a", ".pdf"),
    MkPath(TRUE, <<"data">>, "a", ".pdf") }

\* --output: absent, out.csv, res/out.txt, /tmp/out.csv
Outputs ==
  { NoOutput,
    MkPath(FALSE, <<>>, "out", ".csv"),
    MkPath(FALSE, <<"res">>, "out", ".txt"),
    MkPath(TRUE, <<"tmp">>, "out", ".csv") }

\* pdf_path.parent
Parent(p) == MkPath(p.abs, p.dir, "", "")

\* output_dir / output_file: an absolute right operand replaces the left
PathJoin(d, f) ==
  IF f.abs THEN f ELSE MkPath(d.abs, d.dir \o f.dir, f.stem, f.suffix)

\* The destination main() computes after the loop.
resolve_output(p, out, m) ==
  LET default_name == MkPath(FALSE, <<>>, p.stem, IF m = "table" THEN ".csv" ELSE ".md")
      output_file  == IF out # NoOutput THEN out ELSE default_name
  IN  PathJoin(Parent(p), output_file)

----------------------------------------------------------------------------
VARIABLES
  pc,                   \* where main() is: "start", "pages", "write", "done", "interrupted"
  prompt, mode_arg,     \* args.prompt, args.mode
  api_key,              \* whether GROQ_API_KEY resolves to a non-empty value
  pdf,                  \* args.pdf: "missing", "unreadable" or "ok"
  numPages,             \* len(images_from_pdf)
  mode,                 \* the local  mode  of main()
  page,                 \* number of loop iterations begun and finished
  responses,            \* what the remote service did for each request issued
  calls,                \* the requests issued: page prompt and mode
  header, all_rows,     \* the table accumulated so far
  aggregated_markdown,  \* the page sections accumulated so far
  stderr, stdout,       \* the diagnostics stream and the primary output stream
  file,                 \* the destination file
  writes,               \* how many times the destination was opened for writing
  ret,                  \* main()'s return value, -1 while it has not returned
  pdf_path, output,     \* args.pdf as a path, args.output
  output_path,          \* the destination main() resolved
  temp_dir,             \* the run's temporary directory: "absent", "exists", "deleted"
  temp_files            \* the page numbers whose image file is in temp_dir

vars ==
  << pc, prompt, mode_arg, api_key, pdf, numPages, mode, page, responses, calls,
     header, all_rows, aggregated_markdown, stderr, stdout, file, writes, ret,
     pdf_path, output, output_path, temp_dir, temp_files >>

Line(kind, k) == [line |-> kind, page |-> k]

NoFile == [format |-> "absent"]

----------------------------------------------------------------------------
call_groq_no_key_check(resp, key) ==
  IF resp.kind = "raise"
  THEN [exc |-> "Exception", issued |-> TRUE, lines |-> <<>>, content |-> Scalar]
  ELSE IF resp.kind = "none"
  THEN [exc |-> "OCRScriptError", issued |-> TRUE, lines |-> <<"info">>, content |-> Scalar]
  ELSE [exc |-> "none", issued |-> TRUE, lines |-> <<"info">>, content |-> resp.content]

\* call_groq: the API key check, the request, the diagnostic line, the check
\* for missing content.  exc is the exception that leaves the function.
call_groq(resp, key) ==
  IF ~key
  THEN [exc |-> "OCRScriptError", issued |-> FALSE, lines |-> <<>>, content |-> Scalar]
  ELSE IF resp.kind = "raise"
  THEN [exc |-> "Exception", issued |-> TRUE, lines |-> <<>>, content |-> Scalar]
  ELSE IF resp.kind = "none"
  THEN [exc |-> "OCRScriptError", issued |-> TRUE, lines |-> <<"info">>, content |-> Scalar]
  ELSE [exc |-> "none", issued |-> TRUE, lines |-> <<"info">>, content |-> resp.content]

\* f"This is page {page_num} of a document. {args.prompt}"
page_prompt(page_num, p) ==
  <<"This is page ", ToString(page_num), " of a document. ">> \o p

\* isinstance(x, dict), isinstance(x, list), row.keys(), row.get(col, "")
IsDict(x) == x.t = "object"
IsList(x) == x.t = "array"
Keys(row) == DOMAIN row.members
Get(row, col) == IF col \in DOMAIN row.members THEN row.members[col] ELSE ""

\* Column names in descending code-point order.
KeyOrderDescending == <<"C", "B", "A">>

SortedKeysDescending(data) ==
  SelectSeq(KeyOrderDescending,
            LAMBDA k : \E i \in 1..Len(data.items) : k \in Keys(data.items[i]))

\* sorted({key for row in data for key in row.keys()})
SortedKeys(data) ==
  SelectSeq(KeyOrder, LAMBDA k : \E i \in 1..Len(data.items) : k \in Keys(data.items[i]))

ProjectRowsSortedColumns(data, hdr) ==
  LET cols == SelectSeq(KeyOrder, LAMBDA k : \E j \in 1..Len(hdr) : hdr[j] = k)
  IN  [i \in 1..Len(data.items) |-> [j \in 1..Len(cols) |-> Get(data.items[i], cols[j])]]

\* [[row.get(col, "") for col in header] for row in data]
ProjectRows(data, hdr) ==
  [i \in 1..Len(data.items) |-> [j \in 1..Len(hdr) |-> Get(data.items[i], hdr[j])]]

\* The comprehension calls row.get only when the header has a column.
ProjectRaises(data, hdr) ==
  hdr # <<>> /\ \E i \in 1..Len(data.items) : ~IsDict(data.items[i])

Merged(hdr, rows, exc) == [header |-> hdr, all_rows |-> rows, exc |-> exc]

\* The branch of the merge step taken for page 1.
MergeFirst(data, hdr, rows) ==
  IF IsDict(data) /\ "columns" \in DOMAIN data.members
  THEN IF "rows" \notin DOMAIN data.members
       THEN Merged(data.members.columns, rows, "none")
       ELSE IF IsList(data.members.rows)
       THEN Merged(data.members.columns, rows \o data.members.rows.items, "none")
       ELSE Merged(data.members.columns, rows, "TypeError")
  ELSE IF IsList(data) /\ data.items # <<>>
  THEN IF \E i \in 1..Len(data.items) : ~IsDict(data.items[i])
       THEN Merged(hdr, rows, "AttributeError")
       ELSE Merged(SortedKeys(data), rows \o ProjectRows(data, SortedKeys(data)), "none")
  ELSE Merged(hdr, rows, "none")

MergeLaterNeedsColumns(data, hdr, rows) ==
  IF IsDict(data) /\ "columns" \in DOMAIN data.members /\ "rows" \in DOMAIN data.members
  THEN IF IsList(data.members.rows)
       THEN Merged(hdr, rows \o data.members.rows.items, "none")
       ELSE Merged(hdr, rows, "TypeError")
  ELSE IF IsList(data) /\ data.items # <<>>
  THEN IF ProjectRaises(data, hdr)
       THEN Merged(hdr, rows, "AttributeError")
       ELSE Merged(hdr, rows \o ProjectRows(data, hdr), "none")
  ELSE Merged(hdr, rows, "none")

\* The branch of the merge step taken for every later page.
MergeLater(data, hdr, rows) ==
  IF IsDict(data) /\ "rows" \in DOMAIN data.members
  THEN IF IsList(data.members.rows)
       THEN Merged(hdr, rows \o data.members.rows.items, "none")
       ELSE Merged(hdr, rows, "TypeError")
  ELSE IF IsList(data) /\ data.items # <<>>
  THEN IF ProjectRaises(data, hdr)
       THEN Merged(hdr, rows, "AttributeError")
       ELSE Merged(hdr, rows \o ProjectRows(data, hdr), "none")
  ELSE Merged(hdr, rows, "none")

MergeTableUntilSchemaSet(page_num, text, hdr, rows) ==
  IF text.t \in {"malformed", "empty"}
  THEN Merged(hdr, rows, "JSONDecodeError")
  ELSE IF hdr = <<>>
  THEN MergeFirst(text, hdr, rows)
  ELSE MergeLater(text, hdr, rows)

MergeTableEveryPageFirst(page_num, text, hdr, rows) ==
  IF text.t \in {"malformed", "empty"}
  THEN Merged(hdr, rows, "JSONDecodeError")
  ELSE MergeFirst(text, hdr, rows)

\* The table branch of the loop body: json.loads and the merge into header
\* and all_rows.  exc is the exception raised inside the try block.
MergeTable(page_num, text, hdr, rows) ==
  IF text.t \in {"malformed", "empty"}
  THEN Merged(hdr, rows, "JSONDecodeError")
  ELSE IF page_num = 1
  THEN MergeFirst(text, hdr, rows)
  ELSE MergeLater(text, hdr, rows)

CaughtAny(exc) == exc # "none"

\* except (json.JSONDecodeError, TypeError)
Caught(exc) == exc \in {"JSONDecodeError", "TypeError"}

PageMark == "\n\n---\n\n# Page "

PageSectionZeroBased(page_num, response) ==
  <<PageMark, ToString(page_num - 1), "\n\n", response>>

\* f"\n\n---\n\n# Page {page_num}\n\n{response}"
PageSection(page_num, response) ==
  <<PageMark, ToString(page_num), "\n\n", response>>

RECURSIVE Join(_)
\* "".join(aggregated_markdown)
Join(parts) == IF parts = <<>> THEN <<>> ELSE Head(parts) \o Join(Tail(parts))

\* write_csv: the header row, then one row per accumulated row
write_csv(hdr, rows) == [format |-> "csv", lines |-> <<hdr>> \o rows]

\* write_markdown
write_markdown(payload) == [format |-> "markdown", text |-> payload]

NextPcSkipFailedPage(exc, page_num, n) ==
  IF page_num = n THEN "write" ELSE "pages"

NextPcWriteInLoop(exc, page_num, n) ==
  IF exc # "none" THEN "done" ELSE "write"

\* Where control goes after the body of the loop for page_num: an exception
\* leaves the loop for the handlers at the end of main(), the last page
\* leaves it for the write, any other page is followed by the next.
NextPc(exc, page_num, n) ==
  IF exc # "none" THEN "done"
  ELSE IF page_num = n THEN "write"
  ELSE "pages"

\* except OCRScriptError / except Exception: the line printed
ErrorLine(exc) == IF exc = "OCRScriptError" THEN "Error" ELSE "Unexpected error"

ExitCodeZeroOnUnexpected(exc) == IF exc = "OCRScriptError" THEN 1 ELSE 0

\* What main() returns: 1 from either handler, 0 at its end.
ExitCode(exc) == IF exc = "none" THEN 0 ELSE 1

WithExitNoCleanupOnError(next, files) ==
  IF next = "write"
  THEN [dir |-> "deleted", files |-> {}]
  ELSE [dir |-> "exists", files |-> files]

\* The end of the  with tempfile.TemporaryDirectory()  block: the directory
\* and the files in it are removed when control leaves the block, by the end
\* of the loop or by an exception; they stay while the loop goes on.
WithExit(next, files) ==
  IF next = "pages"
  THEN [dir |-> "exists", files |-> files]
  ELSE [dir |-> "deleted", files |-> {}]

StoreAppend(old, new) ==
  IF old.format = "csv" /\ new.format = "csv"
  THEN [format |-> "csv", lines |-> old.lines \o new.lines]
  ELSE IF old.format = "markdown" /\ new.format = "markdown"
  THEN [format |-> "markdown", text |-> old.text \o new.text]
  ELSE new

\* output_path.open("w") and write_text: what the destination holds after
\* the write replaces whatever it held before.
Store(old, new) == new

\* The --pdf path of the runs of Spec.
RunPdfPath == MkPath(FALSE, <<"docs">>, "a", ".pdf")

\* What every run starts with, whatever its arguments.
Blank ==
  /\ mode = None
  /\ page = 0
  /\ responses = <<>>
  /\ calls = <<>>
  /\ header = <<>>
  /\ all_rows = <<>>
  /\ aggregated_markdown = <<>>
  /\ stderr = <<>>
  /\ stdout = <<>>
  /\ file = NoFile
  /\ writes = 0
  /\ ret = -1
  /\ output_path = NoPath
  /\ temp_dir = "absent"
  /\ temp_files = {}

----------------------------------------------------------------------------
Init ==
  /\ pc = "start"
  /\ prompt \in Prompts
  /\ mode_arg \in ModeArgs
  /\ api_key \in BOOLEAN
  /\ pdf \in {"missing", "unreadable", "ok"}
  /\ numPages \in 0..MaxPages
  /\ (pdf # "ok" => numPages = 0)
  /\ pdf_path = RunPdfPath
  /\ output = NoOutput
  /\ Blank

\* main() up to the loop: the mode, the PDF path check, the rasterization,
\* the temporary directory.
Start ==
  LET exc == IF pdf = "missing" THEN "OCRScriptError"
             ELSE IF pdf = "unreadable" THEN "Exception"
             ELSE IF numPages = 0 THEN "OCRScriptError"
             ELSE "none"
  IN
  /\ pc = "start"
  /\ mode' = infer_mode(prompt, mode_arg)
  /\ stderr' = stderr
               \o (IF pdf = "missing" THEN <<>> ELSE <<Line("converting", 0)>>)
               \o (IF exc = "none"
                   THEN <<Line("converted", numPages)>>
                   ELSE <<Line(ErrorLine(exc), 0)>>)
  /\ pc' = IF exc = "none" THEN "pages" ELSE "done"
  /\ ret' = IF exc = "none" THEN ret ELSE ExitCode(exc)
  /\ temp_dir' = IF exc = "none" THEN "exists" ELSE temp_dir
  /\ UNCHANGED << prompt, mode_arg, api_key, pdf, numPages, page, responses, calls,
                  header, all_rows, aggregated_markdown, stdout, file, writes,
                  pdf_path, output, output_path, temp_files >>

\* One iteration of the loop over the pages, with the remote service's
\* behaviour resp for this page's request.
ProcessPage(resp) ==
  LET page_num == page + 1
      call     == call_groq(resp, api_key)
      merged   == IF call.exc = "none" /\ mode = "table"
                  THEN MergeTable(page_num, call.content, header, all_rows)
                  ELSE Merged(header, all_rows, "none")
      exc      == IF call.exc # "none" THEN call.exc
                  ELSE IF Caught(merged.exc) THEN "none"
                  ELSE merged.exc
      next     == NextPc(exc, page_num, numPages)
  IN
  /\ pc = "pages"
  /\ page' = page_num
  /\ responses' = IF call.issued THEN Append(responses, resp) ELSE responses
  /\ calls' = IF call.issued
              THEN Append(calls, [prompt |-> page_prompt(page_num, prompt), mode |-> mode])
              ELSE calls
  /\ header' = merged.header
  /\ all_rows' = merged.all_rows
  /\ aggregated_markdown' =
       IF call.exc = "none" /\ mode # "table"
       THEN Append(aggregated_markdown, PageSection(page_num, call.content))
       ELSE aggregated_markdown
  /\ stderr' = stderr
               \o <<Line("processing", page_num)>>
               \o [i \in 1..Len(call.lines) |-> Line(call.lines[i], page_num)]
               \o (IF call.exc = "none" /\ Caught(merged.exc)
                   THEN <<Line("warning", page_num)>> ELSE <<>>)
               \o (IF exc # "none" THEN <<Line(ErrorLine(exc), page_num)>> ELSE <<>>)
  /\ pc' = next
  /\ ret' = IF next = "done" THEN ExitCode(exc) ELSE ret
  /\ temp_dir' = WithExit(next, temp_files \cup {page_num}).dir
  /\ temp_files' = WithExit(next, temp_files \cup {page_num}).files
  /\ UNCHANGED << prompt, mode_arg, api_key, pdf, numPages, mode, stdout, file, writes,
                  pdf_path, output, output_path >>

\* The write after the loop.  fault is what the file system does: nothing,
\* a failure to create the directory or open the file, or a failure while
\* the opened file is being written.
Write(fault) ==
  LET content == IF mode = "table"
                 THEN write_csv(header, all_rows)
                 ELSE write_markdown(Join(aggregated_markdown))
      exc     == IF fault = "none" THEN "none" ELSE "Exception"
  IN
  /\ pc = "write"
  /\ pc' = "done"
  /\ output_path' = resolve_output(pdf_path, output, mode)
  /\ file' = IF fault = "none" THEN Store(file, content)
             ELSE IF fault = "open" THEN file
             ELSE [format |-> "partial"]
  /\ writes' = IF fault = "open" THEN writes ELSE writes + 1
  /\ stdout' = IF exc = "none" THEN Append(stdout, Line("Saved OCR output", 0)) ELSE stdout
  /\ stderr' = IF exc = "none" THEN stderr ELSE Append(stderr, Line(ErrorLine(exc), 0))
  /\ ret' = ExitCode(exc)
  /\ UNCHANGED << prompt, mode_arg, api_key, pdf, numPages, mode, page, responses, calls,
                  header, all_rows, aggregated_markdown, pdf_path, output,
                  temp_dir, temp_files >>

\* A user interrupt: KeyboardInterrupt is no Exception, so neither handler
\* of main() catches it and main() does not return; inside the with block
\* it still leaves the block, which removes the temporary directory.
Interrupt ==
  /\ pc \in {"start", "pages", "write"}
  /\ pc' = "interrupted"
  /\ temp_dir' = IF temp_dir = "exists" THEN WithExit("interrupted", temp_files).dir
                 ELSE temp_dir
  /\ temp_files' = IF temp_dir = "exists" THEN WithExit("interrupted", temp_files).files
                   ELSE temp_files
  /\ UNCHANGED << prompt, mode_arg, api_key, pdf, numPages, mode, page, responses, calls,
                  header, all_rows, aggregated_markdown, stderr, stdout, file, writes, ret,
                  pdf_path, output, output_path >>

Next ==
  \/ Start
  \/ \E resp \in Responses(mode) : ProcessPage(resp)
  \/ \E fault \in {"none", "open", "write"} : Write(fault)
  \/ Interrupt

Spec == Init /\ [][Next]_vars

----------------------------------------------------------------------------
\* The sink run again on the aggregate of a run that has written its output.
SinkAgain ==
  LET content == IF mode = "table"
                 THEN write_csv(header, all_rows)
                 ELSE write_markdown(Join(aggregated_markdown))
  IN
  /\ pc = "done" /\ ret = 0
  /\ writes < MaxSinkRuns
  /\ file' = Store(file, content)
  /\ writes' = writes + 1
  /\ UNCHANGED << pc, prompt, mode_arg, api_key, pdf, numPages, mode, page, responses,
                  calls, header, all_rows, aggregated_markdown, stderr, stdout, ret,
                  pdf_path, output, output_path, temp_dir, temp_files >>

SinkNext == Next \/ SinkAgain

SinkSpec == Init /\ [][SinkNext]_vars

----------------------------------------------------------------------------
\* The argument handling alone: the mode and the destination, for every
\* prompt, flag, --pdf path and --output.
ArgsInit ==
  /\ pc = "start"
  /\ prompt \in AllPrompts
  /\ mode_arg \in ModeArgs
  /\ api_key = TRUE
  /\ pdf = "ok"
  /\ numPages = 1
  /\ pdf_path \in PdfPaths
  /\ output \in Outputs
  /\ Blank

ResolveArgs ==
  /\ pc = "start"
  /\ pc' = "resolved"
  /\ mode' = infer_mode(prompt, mode_arg)
  /\ output_path' = resolve_output(pdf_path, output, infer_mode(prompt, mode_arg))
  /\ UNCHANGED << prompt, mode_arg, api_key, pdf, numPages, page, responses, calls,
                  header, all_rows, aggregated_markdown, stderr, stdout, file, writes, ret,
                  pdf_path, output, temp_dir, temp_files >>

ArgsNext == ResolveArgs

ArgsSpec == ArgsInit /\ [][ArgsNext]_vars

----------------------------------------------------------------------------
\* The vocabulary of the claims.

Returned(k) == responses[k].kind = "content"
Content(k)  == responses[k].content
Range(q)    == {q[i] : i \in 1..Len(q)}

\* Shape (a): an object with a columns array and a rows array.
ShapeA(p) ==
  /\ IsDict(p)
  /\ "columns" \in DOMAIN p.members
  /\ "rows" \in DOMAIN p.members
  /\ IsList(p.members.rows)

\* Shape (b): a sequence of key-value records.
ShapeB(p) == IsList(p) /\ \A i \in 1..Len(p.items) : IsDict(p.items[i])

Parseable(p) == ShapeA(p) \/ ShapeB(p)

\* The column list a parseable payload carries.
ColumnsOf(p) == IF ShapeA(p) THEN p.members.columns ELSE SortedKeys(p)

\* The number of rows a parseable payload carries.
RowCountOf(p) == IF ShapeA(p) THEN Len(p.members.rows.items) ELSE Len(p.items)

RECURSIVE ParseableRows(_)
\* The rows carried by the parseable payloads among pages 1..k.
ParseableRows(k) ==
  IF k = 0 THEN 0
  ELSE ParseableRows(k - 1)
       + (IF Returned(k) /\ Parseable(Content(k)) THEN RowCountOf(Content(k)) ELSE 0)

TableRunCompleted == pc = "done" /\ ret = 0 /\ mode = "table"
TextRunCompleted  == pc = "done" /\ ret = 0 /\ mode = "text"

\* The page numbers of the page-boundary headings of a Markdown text.
HeadingNumbers(text) ==
  LET idx == SelectSeq([i \in 1..Len(text) |-> i], LAMBDA i : text[i] = PageMark)
  IN  [j \in 1..Len(idx) |-> text[idx[j] + 1]]

\* C1: in a completed table run the header row of the CSV is the column list
\* of the first page whose response is a parseable structured payload.
C1_HeaderOfFirstParseablePage ==
  TableRunCompleted =>
    \A k \in 1..Len(responses) :
      (Parseable(Content(k)) /\ \A j \in 1..(k - 1) : ~Parseable(Content(j)))
        => file.lines[1] = ColumnsOf(Content(k))

\* C2: in a completed table run the number of data rows of the CSV is the
\* sum of the row counts of the pages with a parseable payload; every other
\* page adds no row.
C2_RowCount ==
  TableRunCompleted => Len(file.lines) - 1 = ParseableRows(Len(responses))

\* C3: in table mode a page whose payload does not parse is skipped with a
\* warning naming it on the diagnostics stream, and does not end the run.
C3_UnparsedPageWarnedAndSkipped ==
  mode = "table" =>
    \A k \in 1..Len(responses) :
      (Returned(k) /\ ~Parseable(Content(k)))
        => /\ Line("warning", k) \in Range(stderr)
           /\ Line("Error", k) \notin Range(stderr)
           /\ Line("Unexpected error", k) \notin Range(stderr)

\* C4: in text mode a page answered with the empty string is an extraction
\* failure: no section is appended for it, main() does not return 0 and no
\* output file is created.
C4_EmptyTextBodyIsFailure ==
  (mode = "text" /\ \E k \in 1..Len(responses) : Returned(k) /\ Content(k) = "")
    => /\ \A i \in 1..Len(aggregated_markdown) : aggregated_markdown[i][4] # ""
       /\ ret # 0
       /\ file = NoFile

\* C5: a remote call that raises or answers without content on page k ends
\* the run at page k: main() returns 1 and the destination is never opened.
C5_TransportFailureIsFatal ==
  \A k \in 1..Len(responses) :
    ~Returned(k) => /\ pc = "done" /\ ret = 1 /\ page = k
                    /\ file = NoFile /\ writes = 0

C5_Witness ==
  /\ mode = "table" /\ page = 2 /\ Len(responses) = 2
  /\ Returned(1) /\ ~Returned(2)
  /\ all_rows # <<>>
  /\ ret = 1 /\ file = NoFile

\* C6: the destination is opened at most once, and only when every page
\* 1..N has been processed without error; while pages are in progress, or
\* after an abort, it is untouched.
C6_WrittenOnceAfterAllPages ==
  /\ writes <= 1
  /\ (writes > 0 \/ file # NoFile)
       => /\ pc = "done"
          /\ page = numPages
          /\ Len(responses) = numPages
          /\ \A k \in 1..numPages : Returned(k)

C6_Witness ==
  /\ numPages >= 2 /\ page = numPages
  /\ writes = 1 /\ file.format \in {"csv", "markdown"}

\* C7: the Markdown of a completed text run has one page heading per page,
\* numbered 1..N in ascending order, and every page's call returned.
C7_TextSectionsInPageOrder ==
  TextRunCompleted =>
    /\ file.format = "markdown"
    /\ HeadingNumbers(file.text) = [k \in 1..numPages |-> ToString(k)]
    /\ Len(responses) = numPages
    /\ \A k \in 1..numPages : Returned(k)

C7_Witness ==
  TextRunCompleted /\ numPages >= 2 /\ Len(aggregated_markdown) = numPages

\* C8: once the schema is established every accumulated row has as many
\* values as the schema has columns.
C8_RowsMatchSchema ==
  (mode = "table" /\ header # <<>>)
    => \A i \in 1..Len(all_rows) : Len(all_rows[i]) = Len(header)

\* C9: once the header is established no step changes it.
C9_SchemaSetOnce == [][header # <<>> => header' = header]_vars

C9_Witness ==
  /\ mode = "table" /\ header # <<>> /\ page >= 2
  /\ Returned(2) /\ ShapeA(Content(2))
  /\ Content(2).members.columns # header

\* C10: an explicit mode flag decides the mode whatever the prompt says, and
\* the mode decided before the first page is the mode of every request and
\* of the write.
C10_ExplicitModeHonored ==
  /\ pc \in {"pages", "write", "done"} => mode \in {"table", "text"}
  /\ mode # None =>
    /\ mode_arg # None => mode = mode_arg
    /\ \A i \in 1..Len(calls) : calls[i].mode = mode
    /\ file.format = "csv" => mode = "table"
    /\ file.format = "markdown" => mode = "text"

C10_Witness ==
  /\ mode_arg = "table" /\ prompt = <<"o","c","r">>
  /\ Len(calls) >= 2
  /\ file.format = "csv"


\* The prompt's lowercase form contains "table" or "csv".
HasKeyword(p) ==
  \/ \E i \in 1..(Len(p) - 4) : Lower(SubSeq(p, i, i + 4)) = <<"t","a","b","l","e">>
  \/ \E i \in 1..(Len(p) - 2) : Lower(SubSeq(p, i, i + 2)) = <<"c","s","v">>

\* C11 as stated: Table if the override says Table; otherwise Table if the
\* prompt has a keyword; otherwise Text.
C11_ResolverAsStated ==
  pc = "resolved" =>
    mode = IF mode_arg = "table" THEN "table"
           ELSE IF HasKeyword(prompt) THEN "table"
           ELSE "text"

\* C11 as amended: the override when one is given, Table or Text; without
\* one, Table if the prompt has a keyword and Text otherwise.
C11_ResolverHonorsOverride ==
  pc = "resolved" =>
    /\ mode_arg = "table" => mode = "table"
    /\ mode_arg = "text" => mode = "text"
    /\ (mode_arg = None /\ HasKeyword(prompt)) => mode = "table"
    /\ (mode_arg = None /\ ~HasKeyword(prompt)) => mode = "text"

C11_Witness ==
  pc = "resolved" /\ mode_arg = "text" /\ HasKeyword(prompt) /\ mode = "text"

LastLine(q) == q[Len(q)].line
Saved == Line("Saved OCR output", 0)

\* C12: main() returns 0 exactly when the output file was written in full,
\* and then only after every page; it returns 1 with an error line as the
\* last line of the diagnostics stream otherwise; the success line is on
\* the primary stream exactly on the exit-0 path.
C12_ExitCode ==
  /\ ret \in {-1, 0, 1}
  /\ pc = "done" <=> ret \in {0, 1}
  /\ ret = 0 <=> file.format \in {"csv", "markdown"}
  /\ ret = 0 => page = numPages /\ numPages >= 1
  /\ ret = 1 => stderr # <<>> /\ LastLine(stderr) \in {"Error", "Unexpected error"}
  /\ ret = 0 <=> Saved \in Range(stdout)
  /\ Saved \notin Range(stderr)

C12_Witness ==
  /\ pc = "done" /\ ret = 1
  /\ page = numPages /\ Len(responses) = numPages
  /\ \A k \in 1..numPages : Returned(k)
  /\ LastLine(stderr) = "Unexpected error"
  /\ stdout = <<>>

\* The run has a configuration error: no API key, a path that is no file,
\* an unreadable document, or a document of zero pages.
ConfigurationError == ~api_key \/ pdf # "ok" \/ numPages = 0

\* C13: a run with a configuration error issues no remote call and leaves
\* no output file, and main() returns 1.
C13_ConfigurationErrorBeforeAnyCall ==
  ConfigurationError =>
    /\ calls = <<>> /\ responses = <<>>
    /\ file = NoFile /\ writes = 0
    /\ pc = "done" => ret = 1

C13_Witness ==
  /\ ~api_key /\ pdf = "ok" /\ numPages >= 1
  /\ pc = "done" /\ ret = 1 /\ page = 1
  /\ calls = <<>>

\* C14: when main() has returned the temporary directory and the page
\* images are gone, and they are gone before the destination is opened.
C14_TempReleased ==
  /\ pc = "done" => temp_dir \in {"absent", "deleted"} /\ temp_files = {}
  /\ (pc = "done" /\ page >= 1) => temp_dir = "deleted"
  /\ (pc = "write" \/ writes > 0 \/ file # NoFile)
       => temp_dir = "deleted" /\ temp_files = {}

C14_Witness ==
  /\ pc = "done" /\ ret = 1
  /\ numPages = 3 /\ page = 2
  /\ temp_dir = "deleted" /\ temp_files = {}

\* C15: the destination is --output exactly as given when the flag is
\* present, and otherwise the source's base name with .csv or .md in the
\* source's directory.
C15_DestinationAsGiven ==
  pc = "resolved" =>
    output_path = IF output # NoOutput
                  THEN output
                  ELSE MkPath(pdf_path.abs, pdf_path.dir, pdf_path.stem,
                              IF mode = "table" THEN ".csv" ELSE ".md")

C17_OneDiagnosticPerCall ==
  /\ Cardinality({i \in 1..Len(stderr) : stderr[i].line = "info"}) = Len(calls)
  /\ mode = "table" =>
       \A k \in 1..Len(responses) :
         (Returned(k) /\ ~Parseable(Content(k))) => Line("warning", k) \in Range(stderr)
  /\ \A i \in 1..Len(stdout) : stdout[i].line \notin {"info", "warning"}

\* The request main() builds for page i.
Request(i) == [prompt |-> page_prompt(i, prompt), mode |-> mode]

\* C18: the requests of a run that has returned are those of pages 1..k in
\* order, k = N when every call succeeded and the first page whose call
\* failed otherwise.
C18_CallsArePagesInOrder ==
  (pc = "done" /\ ~ConfigurationError) =>
    LET failed == {i \in 1..Len(responses) : ~Returned(i)}
        k      == IF failed = {} THEN numPages
                  ELSE CHOOSE i \in failed : \A j \in failed : i <= j
    IN  calls = [i \in 1..k |-> Request(i)]

\* The rows of a list of records under a schema: each column looked up by
\* name, the empty string where the record lacks it.
ExpectedRows(p, schema) ==
  [i \in 1..Len(p.items) |->
     [j \in 1..Len(schema) |->
        IF schema[j] \in DOMAIN p.items[i].members
        THEN p.items[i].members[schema[j]]
        ELSE ""]]

\* C19: a page after the schema is established that returns a list of
\* records adds one row per record, the schema's columns looked up by name
\* in schema order.
C19_RecordsProjectedOntoSchema ==
  [][ ( /\ mode = "table" /\ header # <<>> /\ page >= 1
        /\ page' = page + 1
        /\ Len(responses') = page'
        /\ responses'[page'].kind = "content"
        /\ ShapeB(responses'[page'].content)
        /\ responses'[page'].content.items # <<>> )
      => /\ header' = header
         /\ all_rows' = all_rows \o ExpectedRows(responses'[page'].content, header) ]_vars

C19_Witness ==
  /\ mode = "table" /\ page = 2 /\ Len(responses) = 2
  /\ header = <<"B", "A">>
  /\ Returned(2) /\ Content(2) = Arr(<< Obj([B |-> "2", A |-> "1"]) >>)
  /\ all_rows = << <<"3", "4">>, <<"2", "1">> >>

\* The rows a parseable payload carries under a schema.
RowsOf(p, schema) == IF ShapeA(p) THEN p.members.rows.items ELSE ExpectedRows(p, schema)

RECURSIVE ParseablePageRows(_)
\* The rows of the parseable payloads among pages 1..k, in page order.
ParseablePageRows(k) ==
  IF k = 0 THEN <<>>
  ELSE ParseablePageRows(k - 1)
       \o (IF Returned(k) /\ Parseable(Content(k)) THEN RowsOf(Content(k), header) ELSE <<>>)

\* C20: the accumulated rows are the rows of the parseable pages, in page
\* order and in each page's own order; an unparseable page adds none.
C20_RowsArePagesInOrder ==
  mode = "table" => all_rows = ParseablePageRows(Len(responses))


\* The step that processes page k with a response that carries a text.
PageStep(k) ==
  /\ mode = "table"
  /\ page = k - 1 /\ page' = k
  /\ Len(responses') = k
  /\ responses'[k].kind = "content"

\* A non-empty list of key-value records.
Records(p) == ShapeB(p) /\ p.items # <<>>

\* The keys of the records of a list.
KeyUnion(p) == UNION {DOMAIN p.items[i].members : i \in 1..Len(p.items)}

\* The position of a column name in code-point order.
Rank(name) == CHOOSE r \in 1..Len(KeyOrder) : KeyOrder[r] = name

\* C21: when page 1, the page that establishes the schema, returns a
\* non-empty list of records, the header is the union of the records' keys
\* in ascending order without duplicates, and each record is one row of
\* header length, the empty string where the record lacks the column.
C21_RecordsEstablishSchema ==
  [][ (PageStep(1) /\ Records(responses'[1].content))
      => /\ Range(header') = KeyUnion(responses'[1].content)
         /\ \A i, j \in 1..Len(header') : i < j => Rank(header'[i]) < Rank(header'[j])
         /\ Len(all_rows') = Len(responses'[1].content.items)
         /\ \A i \in 1..Len(all_rows') : Len(all_rows'[i]) = Len(header')
         /\ all_rows' = ExpectedRows(responses'[1].content, header') ]_vars

C21_Witness ==
  /\ mode = "table" /\ page = 1 /\ Len(responses) = 1
  /\ Returned(1) /\ Content(1) = Arr(<< Obj([A |-> "1"]), Obj([C |-> "3"]) >>)
  /\ header = <<"A", "C">>
  /\ all_rows = << <<"1", "">>, <<"", "3">> >>

\* Page 1's payload establishes a schema: an object with columns, or a
\* non-empty list of records.
EstablishesOnFirstPage(p) ==
  \/ IsDict(p) /\ "columns" \in DOMAIN p.members
  \/ Records(p)

\* C22: when page 1's payload establishes no schema the header stays empty
\* for the rest of the run, the CSV is written with an empty header row, and
\* a list of records on a later page adds one zero-length row per record.
C22_HeaderOnlyFromFirstPage ==
  /\ [] ( (mode = "table" /\ page >= 1 /\ Len(responses) >= 1
           /\ Returned(1) /\ ~EstablishesOnFirstPage(Content(1)))
          => /\ header = <<>>
             /\ file.format = "csv" => file.lines[1] = <<>> )
  /\ [][ \A k \in 2..MaxPages :
           (PageStep(k) /\ header = <<>> /\ Records(responses'[k].content))
           => /\ header' = <<>>
              /\ all_rows' = all_rows
                   \o [i \in 1..Len(responses'[k].content.items) |-> <<>>] ]_vars

C22_Witness ==
  /\ TableRunCompleted /\ numPages = 2
  /\ Content(1) = Scalar
  /\ Content(2) = Arr(<< Obj([A |-> "1"]), Obj([C |-> "3"]) >>)
  /\ file.lines = << <<>>, <<>>, <<>> >>

\* A list with an element that is no key-value record.
ListWithNonRecord(p) == IsList(p) /\ \E i \in 1..Len(p.items) : ~IsDict(p.items[i])

\* The run ended at page k with an escaped error: no warning for the page,
\* no later page, exit 1, no output file.
EscapedAt(k) ==
  /\ pc = "done" /\ ret = 1 /\ page = k
  /\ Line("Unexpected error", k) \in Range(stderr)
  /\ Line("warning", k) \notin Range(stderr)
  /\ file = NoFile /\ writes = 0

Unrecognized(k, p) ==
  \/ p.t = "scalar"
  \/ IsList(p) /\ p.items = <<>>
  \/ IsDict(p) /\ (IF k = 1 THEN "columns" ELSE "rows") \notin DOMAIN p.members

\* An object with a rows array and no columns.
RowsOnly(p) ==
  /\ IsDict(p) /\ "columns" \notin DOMAIN p.members
  /\ "rows" \in DOMAIN p.members /\ IsList(p.members.rows)

\* C24: a payload of no recognized shape leaves header and rows as they
\* are, gets no warning and does not end the run; an object with rows and
\* no columns adds nothing on page 1 and all its rows on a later page.
C24_UnrecognizedShapeIsSilent ==
  [][ \A k \in 1..MaxPages :
        /\ (PageStep(k) /\ Unrecognized(k, responses'[k].content))
             => /\ header' = header /\ all_rows' = all_rows
                /\ Line("warning", k) \notin Range(stderr')
                /\ pc' \in {"pages", "write"} /\ ret' = ret
        /\ (PageStep(k) /\ RowsOnly(responses'[k].content))
             => /\ header' = header
                /\ all_rows' = IF k = 1 THEN all_rows
                               ELSE all_rows \o responses'[k].content.members.rows.items ]_vars

C24_Witness ==
  /\ mode = "table" /\ page = 2 /\ Len(responses) = 2
  /\ Returned(1) /\ RowsOnly(Content(1))
  /\ Returned(2) /\ Content(2) = Content(1)
  /\ all_rows = Content(2).members.rows.items
  /\ Line("warning", 1) \notin Range(stderr) /\ Line("warning", 2) \notin Range(stderr)

\* C25: a run whose every remote call returned content reaches the write,
\* and main() returns 0 when the write succeeds; a table run in which every
\* page's text failed to decode writes a CSV of one empty header row.
C25_ContentAlwaysReachesWrite ==
  /\ (pc = "done" /\ ~ConfigurationError /\ \A k \in 1..Len(responses) : Returned(k))
       => /\ page = numPages
          /\ output_path # NoPath
          /\ file.format \in {"csv", "markdown"} => ret = 0
  /\ (TableRunCompleted /\ \A k \in 1..Len(responses) : Content(k).t \in {"malformed", "empty"})
       => file.lines = << <<>> >>

====
